---- MODULE Spec2Model ----
(***************************************************************************)
(* A model of mirai_extensions.trigger: Filter (filter.py), Trigger        *)
(* (trigger.py), InterruptControl (interrupt.py) and HandlerControl        *)
(* (handler.py).                                                           *)
(*                                                                         *)
(* Python values are modelled as records [tag, kind, v]:                   *)
(*   None            the absent value                                      *)
(*   value           an int payload (0 is falsy but is not None)           *)
(*   event           an event object used as a payload                     *)
(*   raise           an exception raised instead of a value                *)
(***************************************************************************)
EXTENDS Integers, Sequences, FiniteSets, TLC

\* ------------------------------------------------------------------ bounds
\* Longest mixin list of the filters drawn in FilterSpec.
MaxMixin == 2

\* ------------------------------------------------------------ python values
NoneV == [tag |-> "None", kind |-> "", v |-> 0]
Val(n) == [tag |-> "value", kind |-> "", v |-> n]
EventV(e) == [tag |-> "event", kind |-> e.kind, v |-> e.from]
Raise == [tag |-> "raise", kind |-> "", v |-> 0]

\* `x is not None` for a value that was returned (not raised).
IsNotNone(x) == x.tag \in {"value", "event"}

\* bool(x) of a returned value: None and 0 are falsy.
Truthy(x) == x.tag = "event" \/ (x.tag = "value" /\ x.v # 0)

\* ------------------------------------------------------------------ events
Kinds == {"Ping", "Pong"}

Ev(k, n) == [kind |-> k, from |-> n]

Events == {Ev("Ping", 0), Ev("Ping", 7), Ev("Ping", 42), Ev("Pong", 42)}

\* The events of kind Ping. Trigger.catch never looks at the kind of an event.
PingEvents == {e \in Events : e.kind = "Ping"}

\* ------------------------------------------------- user-supplied extractors
\* The functions handed to Filter(func=...) and Trigger(filter=...):
\*   from    lambda e: e.from
\*   is42    lambda e: e.from if e.from == 42 else None
\*   never   lambda e: None
\*   boom    raises
\*   strict  raises on 0, None on 7, e.from otherwise
Funcs == {"from", "is42", "never", "boom", "strict"}

CallFunc(fn, e) ==
    CASE fn = "from" -> Val(e.from)
      [] fn = "is42" -> IF e.from = 42 THEN Val(42) ELSE NoneV
      [] fn = "never" -> NoneV
      [] fn = "boom" -> Raise
      [] fn = "strict" -> IF e.from = 0 THEN Raise
                          ELSE IF e.from = 7 THEN NoneV ELSE Val(e.from)

\* ================================================================== Filter
\* A Filter object: [event_name, mixin (a sequence of Filters), func], where
\* func is a name of Funcs or "NoFunc" (self._func is None).
MkFilter(k, ms, fn) == [event_name |-> k, mixin |-> ms, func |-> fn]

\* Filter._catch: the event itself without an extractor, else the extractor's
\* result. calls is the trace of _catch invocations (by extractor name).
Filter__catch(f, e) ==
    IF f.func = "NoFunc"
    THEN [out |-> EventV(e), calls |-> <<"NoFunc">>]
    ELSE [out |-> CallFunc(f.func, e), calls |-> <<f.func>>]

\* A mutant of MixinIsNone: truthiness instead of identity with None.
MixinIsNoneByTruth(x) == ~Truthy(x)

\* `filter.catch(event) is None` of BaseFilter.catch's generator.
MixinIsNone(x) == x.tag = "None"

RECURSIVE Filter_catch(_, _)
RECURSIVE MixinAny(_, _, _)

\* any(filter.catch(event) is None for filter in self.mixin), from index i:
\* res is "none" when a mixin returned None (any() is True), "raise" when a
\* mixin's catch raised, "pass" when the list is exhausted.
MixinAny(ms, e, i) ==
    IF i > Len(ms) THEN [res |-> "pass", calls |-> <<>>]
    ELSE LET r == Filter_catch(ms[i], e) IN
         IF r.out.tag = "raise" THEN [res |-> "raise", calls |-> r.calls]
         ELSE IF MixinIsNone(r.out) THEN [res |-> "none", calls |-> r.calls]
         ELSE LET rest == MixinAny(ms, e, i + 1) IN
              [res |-> rest.res, calls |-> r.calls \o rest.calls]

\* BaseFilter.catch.
Filter_catch(f, e) ==
    LET m == MixinAny(f.mixin, e, 1) IN
    IF m.res = "raise" THEN [out |-> Raise, calls |-> m.calls]
    ELSE IF m.res = "none" THEN [out |-> NoneV, calls |-> m.calls]
    ELSE LET own == Filter__catch(f, e) IN
         [out |-> own.out, calls |-> m.calls \o own.calls]

\* ------------------------------------------------ the filters of FilterSpec
SeqsUpTo(S, n) == UNION {[1..k -> S] : k \in 0..n}

LeafFilters == {MkFilter("Ping", <<>>, fn) : fn \in Funcs \cup {"NoFunc"}}

MidFilters ==
    {MkFilter("Ping", ms, fn) :
        ms \in SeqsUpTo(LeafFilters, 1) \ {<<>>}, fn \in {"from", "NoFunc", "never"}}

FilterInputs ==
    {MkFilter("Ping", ms, fn) :
        ms \in SeqsUpTo(LeafFilters \cup MidFilters, MaxMixin),
        fn \in Funcs \cup {"NoFunc"}}


\* ================================================================= Trigger
\* Trigger objects. T1, T2, T3 are constructed by the application; W1 and W2
\* are the Triggers InterruptControl.wait constructs around a bare Filter.
DeclTriggers == {"T1", "T2", "T3"}

WrapTriggers == {"W1", "W2"}

TriggerIds == DeclTriggers \cup WrapTriggers

\* Most futures one Trigger creates (its first wait or reset, then resets).
MaxFut == 2

\* Most Trigger.catch calls suspended in their filter at one time.
MaxCatch == 1

\* Trigger.__init__: a filter that is None is not stored, so the instance has
\* no `filter` attribute ("Unset"); there is no future and nothing was waited.
Trigger_init(event_name, priority, filter) ==
    [event_name |-> event_name, priority |-> priority,
     filter |-> IF filter = "None" THEN "Unset" ELSE filter,
     future |-> 0, waited |-> FALSE, made |-> TRUE]

\* A Trigger object that has not been constructed yet.
NoTrigger ==
    [event_name |-> "", priority |-> 0, filter |-> "Unset",
     future |-> 0, waited |-> FALSE, made |-> FALSE]

\* The application's triggers: Trigger(Ping, 1, strict), Trigger(Ping, 5, from)
\* and Trigger(Ping, 3), which is given no filter.
DeclTrigger(t) ==
    IF t = "T1" THEN Trigger_init("Ping", 1, "strict")
    ELSE IF t = "T2" THEN Trigger_init("Ping", 5, "from")
    ELSE Trigger_init("Ping", 3, "None")

\* loop.create_future()
NewFuture == [state |-> "pending", value |-> NoneV, cbs |-> <<>>]

\* asyncio.Future.done()
FutDone(f) == f.state # "pending"

\* asyncio.Future.cancel(): no effect on a future that is done.
FutCancel(f) == IF FutDone(f) THEN f ELSE [f EXCEPT !.state = "cancelled"]

\* Trigger.done
Trigger_done(tr, fs) ==
    tr.waited \/ (tr.future # 0 /\ FutDone(fs[tr.future]))

\* A mutant of Trigger_reset: the old future is not cancelled.
Trigger_reset_no_cancel(tr, fs) ==
    [tr |-> [tr EXCEPT !.future = Len(fs) + 1, !.waited = FALSE],
     fs |-> Append(fs, NewFuture)]

\* A mutant of Trigger_reset: the awaited flag is not cleared.
Trigger_reset_keeps_waited(tr, fs) ==
    LET fs1 == IF tr.future # 0
               THEN [fs EXCEPT ![tr.future] = FutCancel(@)] ELSE fs
    IN [tr |-> [tr EXCEPT !.future = Len(fs1) + 1],
        fs |-> Append(fs1, NewFuture)]

\* Trigger.reset: cancels the current future, installs a new one, clears
\* the awaited flag.
Trigger_reset(tr, fs) ==
    LET fs1 == IF tr.future # 0
               THEN [fs EXCEPT ![tr.future] = FutCancel(@)] ELSE fs
    IN [tr |-> [tr EXCEPT !.future = Len(fs1) + 1, !.waited = FALSE],
        fs |-> Append(fs1, NewFuture)]

\* Trigger.catch, line 132: the early `return False`.
CatchGuard(tr, fs) == tr.future = 0 \/ Trigger_done(tr, fs)

\* A mutant of CatchResolve: the result is stored without looking at
\* self._future.done().
CatchResolveUnguarded(tr, fs, r) ==
    IF IsNotNone(r)
    THEN [ret |-> "True",
          fs |-> [fs EXCEPT ![tr.future] = [@ EXCEPT !.state = "result", !.value = r]]]
    ELSE IF r.tag = "raise"
    THEN [ret |-> "True",
          fs |-> [fs EXCEPT ![tr.future] = [@ EXCEPT !.state = "exception", !.value = NoneV]]]
    ELSE [ret |-> "False", fs |-> fs]

\* A mutant of CatchResolve: a filter that raises counts as no match.
CatchResolveRaiseNoMatch(tr, fs, r) ==
    IF IsNotNone(r) /\ ~FutDone(fs[tr.future])
    THEN [ret |-> "True",
          fs |-> [fs EXCEPT ![tr.future] = [@ EXCEPT !.state = "result", !.value = r]]]
    ELSE [ret |-> "False", fs |-> fs]

\* Trigger.catch, lines 137-148, with r what `await async_(self.filter(event))`
\* gave: set_result / set_exception on self._future unless it is done.
CatchResolve(tr, fs, r) ==
    IF IsNotNone(r) /\ ~FutDone(fs[tr.future])
    THEN [ret |-> "True",
          fs |-> [fs EXCEPT ![tr.future] = [@ EXCEPT !.state = "result", !.value = r]]]
    ELSE IF r.tag = "raise" /\ ~FutDone(fs[tr.future])
    THEN [ret |-> "True",
          fs |-> [fs EXCEPT ![tr.future] = [@ EXCEPT !.state = "exception", !.value = NoneV]]]
    ELSE [ret |-> "False", fs |-> fs]

\* A mutant of Trigger_catch: with no slot yet the filter is still asked, and
\* its verdict is returned.
Trigger_catch_asks_without_slot(tr, fs, e) ==
    IF tr.future = 0
    THEN [ret |-> IF tr.filter = "Unset" THEN "AttributeError"
                  ELSE IF tr.filter = "None" THEN "True"
                  ELSE IF CallFunc(tr.filter, e) = NoneV THEN "False" ELSE "True",
          fs |-> fs]
    ELSE IF CatchGuard(tr, fs) THEN [ret |-> "False", fs |-> fs]
    ELSE IF tr.filter = "Unset" THEN [ret |-> "AttributeError", fs |-> fs]
    ELSE IF tr.filter = "None"
    THEN [ret |-> "True",
          fs |-> [fs EXCEPT ![tr.future] = [@ EXCEPT !.state = "result", !.value = NoneV]]]
    ELSE CatchResolve(tr, fs, CallFunc(tr.filter, e))

\* Trigger.catch with a filter that does not suspend: what it returns
\* ("AttributeError": reading self.filter raised) and the futures after it.
Trigger_catch(tr, fs, e) ==
    IF CatchGuard(tr, fs) THEN [ret |-> "False", fs |-> fs]
    ELSE IF tr.filter = "Unset" THEN [ret |-> "AttributeError", fs |-> fs]
    ELSE IF tr.filter = "None"
    THEN [ret |-> "True",
          fs |-> [fs EXCEPT ![tr.future] = [@ EXCEPT !.state = "result", !.value = NoneV]]]
    ELSE CatchResolve(tr, fs, CallFunc(tr.filter, e))

\* A mutant of WaitFinally: the awaited flag is never set.
WaitFinallyUnmarked(tr, fs) == tr

\* Trigger.wait, lines 204-205: `finally: self._waited = self._future.done()`,
\* read from the Trigger's current future.
WaitFinally(tr, fs) == [tr EXCEPT !.waited = FutDone(fs[tr.future])]

\* A mutant of AwaitDone: the TimeoutError is not turned into None.
AwaitDoneTimeoutRaises(f, expired) ==
    CASE f.state = "result" -> [pc |-> "ret", val |-> f.value, err |-> ""]
      [] f.state = "exception" -> [pc |-> "raised", val |-> NoneV, err |-> "FilterError"]
      [] OTHER -> [pc |-> "raised", val |-> NoneV,
                   err |-> IF expired THEN "TimeoutError" ELSE "CancelledError"]

\* Trigger.wait, lines 197-203: what awaiting the done future f gives the
\* caller. expired: the future was cancelled by this wait's own deadline
\* (asyncio.wait_for raises TimeoutError, which wait turns into None); a
\* future cancelled by anything else raises CancelledError.
AwaitDone(f, expired) ==
    CASE f.state = "result" -> [pc |-> "ret", val |-> f.value, err |-> ""]
      [] f.state = "exception" -> [pc |-> "raised", val |-> NoneV, err |-> "FilterError"]
      [] OTHER -> IF expired THEN [pc |-> "ret", val |-> NoneV, err |-> ""]
                  ELSE [pc |-> "raised", val |-> NoneV, err |-> "CancelledError"]

\* The callers of Trigger.wait / InterruptControl.wait.
Waiters == {"w1", "w2"}

\* A caller that has not called yet. rel: the future asyncio.wait_for suspends
\* the caller on is done, so the caller's wake-up is scheduled; expired: the
\* caller handled its deadline and cancelled the Trigger's future. inc: the
\* call is InterruptControl.wait; flt: the Filter it was given (or ""); match:
\* the payload of the first event dispatched during the suspension that flt
\* captures (None: none so far).
IdleWaiter ==
    [pc |-> "idle", t |-> "", fut |-> 0, tmo |-> FALSE, rel |-> FALSE,
     expired |-> FALSE, val |-> NoneV, err |-> "", inc |-> FALSE, flt |-> "",
     match |-> NoneV]

\* The done-callback that resumes the task suspended in `await self._future`.
WakeCb(w) == [op |-> "wake", arg |-> w]

\* The done-callback asyncio.wait_for(self._future, timeout) puts on the
\* future: it releases the future wait_for suspends the caller on.
ReleaseCb(w) == [op |-> "release", arg |-> w]

\* The wake-up of the task suspended inside asyncio.wait_for, which the loop
\* runs one iteration after the caller was released.
ResumeCb(w) == [op |-> "resume", arg |-> w]

\* Trigger.wait up to its first suspension, called by w (wt: w's record so
\* far) with timeout > 0 (tmo) or <= 0: the Trigger, its futures and w after.
\* With a timeout the caller always suspends in asyncio.wait_for, also on a
\* future that is done; without one, `await self._future` on a done future
\* runs wait to its end at once.
Trigger_wait(tr, fs, w, wt, tmo) ==
    IF tr.waited
    THEN [tr |-> tr, fs |-> fs,
          wt |-> [wt EXCEPT !.pc = "raised", !.err = "RuntimeError", !.tmo = tmo]]
    ELSE LET fs1 == IF tr.future = 0 THEN Append(fs, NewFuture) ELSE fs
             tr1 == IF tr.future = 0 THEN [tr EXCEPT !.future = Len(fs1)] ELSE tr
             f == fs1[tr1.future]
         IN IF tmo
            THEN [tr |-> tr1,
                  fs |-> [fs1 EXCEPT ![tr1.future].cbs = Append(@, ReleaseCb(w))],
                  wt |-> [wt EXCEPT !.pc = "susp", !.fut = tr1.future, !.tmo = tmo]]
            ELSE IF FutDone(f)
            THEN LET o == AwaitDone(f, FALSE) IN
                 [tr |-> WaitFinally(tr1, fs1), fs |-> fs1,
                  wt |-> [wt EXCEPT !.pc = o.pc, !.val = o.val, !.err = o.err,
                                    !.fut = tr1.future, !.tmo = tmo]]
            ELSE [tr |-> tr1,
                  fs |-> [fs1 EXCEPT ![tr1.future].cbs = Append(@, WakeCb(w))],
                  wt |-> [wt EXCEPT !.pc = "susp", !.fut = tr1.future, !.tmo = tmo]]

\* asyncio.wait_for at its deadline, the future g still unresolved: it takes
\* its callback off the future, puts a new one last (_cancel_and_wait) and
\* cancels the future.
WaitForDeadline(fs, g, w) ==
    [fs EXCEPT ![g] =
        FutCancel([@ EXCEPT !.cbs = Append(SelectSeq(@, LAMBDA c : c # ReleaseCb(w)),
                                           ReleaseCb(w))])]

RECURSIVE Due(_, _, _)
\* The callbacks of the futures fs of Trigger t, from future g on, that the
\* loop is handed with call_soon: those of every future that is done, in the
\* order they were added.
Due(t, fs, g) ==
    IF g > Len(fs) THEN <<>>
    ELSE (IF FutDone(fs[g])
          THEN [i \in 1..Len(fs[g].cbs) |-> [t |-> t, g |-> g, cb |-> fs[g].cbs[i]]]
          ELSE <<>>) \o Due(t, fs, g + 1)

\* The futures once those callbacks are handed over: a done future holds none.
Scheduled(fs) ==
    [g \in 1..Len(fs) |-> IF FutDone(fs[g]) THEN [fs[g] EXCEPT !.cbs = <<>>] ELSE fs[g]]

\* Trigger.set_filter, and the assignment made by Trigger.__call__.
Trigger_set_filter(tr, filter) == [tr EXCEPT !.filter = filter]

\* ============================================================ PriorityDict
\* mirai.utils.PriorityDict, a mapping from priority to an insertion-ordered
\* set of values: ents are its (priority, value) entries in the order they
\* were added, the bucket of a priority being the entries with it.
EmptyPD == [ents |-> <<>>]

\* v is an entry of some bucket.
PDHas(pd, v) == \E i \in DOMAIN pd.ents : pd.ents[i].v = v

\* PriorityDict.add: v becomes an entry of the bucket of priority p, last in
\* it; a bucket holds no entry twice.
PDAdd(pd, p, v) ==
    [ents |-> IF \E i \in DOMAIN pd.ents : pd.ents[i] = [p |-> p, v |-> v]
              THEN pd.ents ELSE Append(pd.ents, [p |-> p, v |-> v])]

\* PriorityDict.remove of a value that is present (else it raises KeyError):
\* the value is removed by identity and is an entry of no bucket afterwards.
PDRemove(pd, v) == [ents |-> SelectSeq(pd.ents, LAMBDA x : x.v # v)]

RECURSIVE PDBuckets(_, _)
\* The buckets with a priority in ps, in ascending priority; each bucket is
\* the sequence of its values in insertion order.
PDBuckets(pd, ps) ==
    IF ps = {} THEN <<>>
    ELSE LET p == CHOOSE x \in ps : \A y \in ps : x <= y
             b == SelectSeq(pd.ents, LAMBDA x : x.p = p)
         IN <<[i \in 1..Len(b) |-> b[i].v]>> \o PDBuckets(pd, ps \ {p})

\* PriorityDict.__iter__
PDIter(pd) == PDBuckets(pd, {pd.ents[i].p : i \in DOMAIN pd.ents})

\* dict.setdefault-like: d with key k, created empty when missing.
WithKey(d, k) ==
    [x \in DOMAIN d \cup {k} |-> IF x \in DOMAIN d THEN d[x] ELSE EmptyPD]

\* ======================================================== InterruptControl
\* The Filter objects handed to InterruptControl.wait and HandlerControl.
FilterIds == {"F42", "Fany", "Fboom", "Fmix", "Fpong"}

FilterObj(id) ==
    CASE id = "F42" -> MkFilter("Ping", <<>>, "is42")
      [] id = "Fany" -> MkFilter("Ping", <<>>, "from")
      [] id = "Fboom" -> MkFilter("Ping", <<>>, "strict")
      [] id = "Fmix" -> MkFilter("Ping", <<MkFilter("Ping", <<>>, "is42")>>, "NoFunc")
      [] id = "Fpong" -> MkFilter("Pong", <<>>, "NoFunc")

\* The filters InterruptControl.wait is called with, and the priorities.
IncFilters == {"F42"}

IncPriorities == {0, 5}

\* A mutant of BusAfterRegister: an adapter is registered by every call.
BusAfterRegisterAlways(bus, reg, event_name) ==
    [bus EXCEPT ![event_name] = @ + 1]

\* `if event_name not in self._triggers: ... self._new_handler(event_name)`
\* (and the same lines of HandlerControl.subscribe): the adapters on the bus
\* after a registration for event_name, reg the table before it.
BusAfterRegister(bus, reg, event_name) ==
    IF event_name \in DOMAIN reg THEN bus ELSE [bus EXCEPT ![event_name] = @ + 1]

\* The done-callback of InterruptControl.wait, lines 91-93.
RemoveCb(k) == [op |-> "remove", arg |-> k]

\* Trigger.add_done_callback: nothing is registered when there is no future.
Trigger_add_done_callback(tr, fs, cb) ==
    IF tr.future # 0 THEN [fs EXCEPT ![tr.future].cbs = Append(@, cb)] ELSE fs

\* A mutant of AdapterOffer: catch is awaited, its result is ignored.
AdapterOfferAwaitedNoBreak(tr, fs, e) ==
    [caught |-> FALSE, fs |-> Trigger_catch(tr, fs, e).fs]

\* InterruptControl._new_handler, line 59: `if trigger.catch(event):` tests the
\* coroutine object catch returns, which is truthy; the coroutine is never
\* awaited, so the body of catch does not run.
AdapterOffer(tr, fs, e) == [caught |-> TRUE, fs |-> fs]

RECURSIVE IncInner(_, _, _, _, _)
\* `for trigger in list(triggers)`, from index i of one bucket.
IncInner(bucket, i, tg, fu, e) ==
    IF i > Len(bucket) THEN [brk |-> FALSE, futs |-> fu, offered |-> <<>>]
    ELSE LET t == bucket[i]
             r == AdapterOffer(tg[t], fu[t], e)
             fu1 == [fu EXCEPT ![t] = r.fs]
         IN IF r.caught THEN [brk |-> TRUE, futs |-> fu1, offered |-> <<t>>]
            ELSE LET rest == IncInner(bucket, i + 1, tg, fu1, e) IN
                 [brk |-> rest.brk, futs |-> rest.futs,
                  offered |-> <<t>> \o rest.offered]

RECURSIVE IncOuter(_, _, _, _, _)
\* `for triggers in self._triggers[event_name]`, from bucket b.
IncOuter(buckets, b, tg, fu, e) ==
    IF b > Len(buckets) THEN [futs |-> fu, offered |-> <<>>]
    ELSE LET r == IncInner(buckets[b], 1, tg, fu, e) IN
         IF r.brk THEN [futs |-> r.futs, offered |-> r.offered]
         ELSE LET rest == IncOuter(buckets, b + 1, tg, r.futs, e) IN
              [futs |-> rest.futs, offered |-> r.offered \o rest.offered]

VARIABLES
    trig,          \* the Trigger objects: TriggerIds -> Trigger record
    futs,          \* every future a Trigger created, oldest first
    waiters,       \* the callers of Trigger.wait / InterruptControl.wait
    catching,      \* the filter a suspended Trigger.catch call awaits, per <<t, e>>
    ready,         \* the callbacks and wake-ups the event loop will run, in order
    inc_triggers,  \* InterruptControl._triggers: event kind -> PriorityDict
    incBus,        \* adapters InterruptControl registered on the bus, per kind
    last,          \* what the step just taken returned to its caller
    fIn,           \* FilterSpec: the filter and the event catch is applied to
    fOut,          \* FilterSpec: what catch returned, or pc = "idle"
    hdc_handlers,  \* HandlerControl._handlers: event kind -> PriorityDict
    hdcBus,        \* adapters HandlerControl registered on the bus, per kind
    cbLog,         \* per slot of T1: callbacks the application added, and runs
    disp           \* a HandlerControl dispatch whose handlers call back into hdc

trigVars == <<trig, futs, waiters, catching, ready>>
incVars == <<inc_triggers, incBus>>
filterVars == <<fIn, fOut>>
hdcVars == <<hdc_handlers, hdcBus, disp>>
vars == <<trig, futs, waiters, catching, ready, inc_triggers, incBus, last,
          fIn, fOut, hdc_handlers, hdcBus, cbLog, disp>>

\* The step just taken was no catch call ending and no event dispatch.
NoLast ==
    [op |-> "", t |-> "", e |-> Ev("", 0), ret |-> "", offered |-> <<>>,
     called |-> <<>>, ran |-> <<>>, pair |-> [f |-> "", h |-> ""]]

\* Trigger.catch(e) on t ended with ret ("True", "False", "AttributeError").
CatchLast(t, e, ret) == [NoLast EXCEPT !.op = "catch", !.t = t, !.e = e, !.ret = ret]

\* The InterruptControl adapter handled e and called catch on `offered`.
EmitLast(e, offered) == [NoLast EXCEPT !.op = "emit", !.e = e, !.offered = offered]

\* ------------------------------------------------------------------- Init
TriggerInit ==
    /\ trig = [t \in TriggerIds |-> IF t \in DeclTriggers THEN DeclTrigger(t) ELSE NoTrigger]
    /\ futs = [t \in TriggerIds |-> <<>>]
    /\ waiters = [w \in Waiters |-> IdleWaiter]
    /\ catching = [c \in DeclTriggers \X Events |-> ""]
    /\ ready = <<>>
    /\ last = NoLast
    /\ cbLog = [added |-> [g \in 1..MaxFut |-> 0], ran |-> [g \in 1..MaxFut |-> 0]]

\* InterruptControl.__init__
InterruptControl_init ==
    /\ inc_triggers = [k \in {} |-> EmptyPD]
    /\ incBus = [k \in Kinds |-> 0]

FilterIdle ==
    /\ fIn = [f |-> MkFilter("Ping", <<>>, "NoFunc"), e |-> Ev("Ping", 0)]
    /\ fOut = [pc |-> "off", out |-> NoneV, calls |-> <<>>]

\* No dispatch is in progress. pc: "idle", "inner" (in the for loops), "done"
\* or "failed"; prios: the buckets the outer for iterates; b, i: the bucket
\* and the position in it; snap: list(filters) of bucket b; visited: the entries of bucket b the loop body ran
\* for; called: the func(event, payload) calls made so far.
DispIdle ==
    [pc |-> "idle", e |-> Ev("", 0), snap |-> <<>>, prios |-> <<>>, b |-> 0,
     i |-> 0, visited |-> <<>>, called |-> <<>>]

\* HandlerControl.__init__
HandlerControl_init ==
    /\ hdc_handlers = [k \in {} |-> EmptyPD]
    /\ hdcBus = [k \in Kinds |-> 0]
    /\ disp = DispIdle

Init == TriggerInit /\ InterruptControl_init /\ FilterIdle /\ HandlerControl_init

\* FilterSpec starts with a filter and an event drawn, catch not yet called.
FilterDraw ==
    /\ fIn \in [f : FilterInputs, e : Events]
    /\ fOut = [pc |-> "idle", out |-> NoneV, calls |-> <<>>]

FilterInit == TriggerInit /\ InterruptControl_init /\ FilterDraw /\ HandlerControl_init

\* ---------------------------------------------------------------- Trigger
InFlight == Cardinality({c \in DeclTriggers \X Events : catching[c] # ""})

\* trigger.reset()
Reset(t) ==
    /\ Len(futs[t]) < MaxFut
    /\ LET r == Trigger_reset(trig[t], futs[t]) IN
       /\ trig' = [trig EXCEPT ![t] = r.tr]
       /\ futs' = [futs EXCEPT ![t] = Scheduled(r.fs)]
       /\ ready' = ready \o Due(t, r.fs, 1)
    /\ last' = NoLast
    /\ UNCHANGED <<waiters, catching, incVars, filterVars, hdcVars, cbLog>>

\* trigger.set_filter(fn)
SetFilter(t, fn) ==
    /\ trig' = [trig EXCEPT ![t] = Trigger_set_filter(@, fn)]
    /\ last' = [NoLast EXCEPT !.op = "set_filter", !.t = t, !.ret = fn]
    /\ UNCHANGED <<futs, waiters, catching, ready, incVars, filterVars, hdcVars, cbLog>>

\* trigger(fn), the decorator form: sets the filter and returns the Trigger.
TriggerCall(t, fn) ==
    /\ trig' = [trig EXCEPT ![t] = Trigger_set_filter(@, fn)]
    /\ last' = [NoLast EXCEPT !.op = "__call__", !.t = t, !.ret = t]
    /\ UNCHANGED <<futs, waiters, catching, ready, incVars, filterVars, hdcVars, cbLog>>

\* await trigger.catch(e), the filter a plain function: nothing interleaves.
Catch(t, e) ==
    /\ LET r == Trigger_catch(trig[t], futs[t], e) IN
       /\ futs' = [futs EXCEPT ![t] = Scheduled(r.fs)]
       /\ ready' = ready \o Due(t, r.fs, 1)
       /\ last' = CatchLast(t, e, r.ret)
    /\ UNCHANGED <<trig, waiters, catching, incVars, filterVars, hdcVars, cbLog>>

\* trigger.catch(e) up to `await async_(self.filter(event))`, the filter a
\* coroutine function that suspends: the filter read here is the one awaited.
CatchCall(t, e) ==
    /\ ~CatchGuard(trig[t], futs[t])
    /\ trig[t].filter \notin {"Unset", "None"}
    /\ InFlight < MaxCatch
    /\ catching[<<t, e>>] = ""
    /\ catching' = [catching EXCEPT ![<<t, e>>] = trig[t].filter]
    /\ last' = NoLast
    /\ UNCHANGED <<trig, futs, waiters, ready, incVars, filterVars, hdcVars, cbLog>>

\* trigger.catch(e) from the filter's result to its return.
CatchResume(t, e) ==
    /\ catching[<<t, e>>] # ""
    /\ LET r == CatchResolve(trig[t], futs[t], CallFunc(catching[<<t, e>>], e)) IN
       /\ futs' = [futs EXCEPT ![t] = Scheduled(r.fs)]
       /\ ready' = ready \o Due(t, r.fs, 1)
       /\ last' = CatchLast(t, e, r.ret)
    /\ catching' = [catching EXCEPT ![<<t, e>>] = ""]
    /\ UNCHANGED <<trig, waiters, incVars, filterVars, hdcVars, cbLog>>

\* The caller that calls next: w1 before w2.
NextWaiter(w) ==
    /\ waiters[w].pc = "idle"
    /\ w = "w1" \/ waiters["w1"].pc # "idle"

\* await trigger.wait(timeout), up to its first suspension
WaitCall(w, t, tmo) ==
    /\ NextWaiter(w)
    /\ trig[t].future # 0 \/ Len(futs[t]) < MaxFut
    /\ LET r == Trigger_wait(trig[t], futs[t], w, [IdleWaiter EXCEPT !.t = t], tmo) IN
       /\ trig' = [trig EXCEPT ![t] = r.tr]
       /\ futs' = [futs EXCEPT ![t] = Scheduled(r.fs)]
       /\ ready' = ready \o Due(t, r.fs, 1)
       /\ waiters' = [waiters EXCEPT ![w] = r.wt]
    /\ last' = NoLast
    /\ UNCHANGED <<catching, incVars, filterVars, hdcVars, cbLog>>

\* The timer of asyncio.wait_for(self._future, timeout) fires while w is
\* suspended and not yet released: w is released and its wake-up is scheduled.
\* What w does at its deadline it does when it is resumed (RunCallback).
Timeout(w) ==
    /\ waiters[w].pc = "susp"
    /\ waiters[w].tmo
    /\ ~waiters[w].rel /\ ~waiters[w].expired
    /\ waiters' = [waiters EXCEPT ![w].rel = TRUE]
    /\ ready' = Append(ready, [t |-> waiters[w].t, g |-> waiters[w].fut, cb |-> ResumeCb(w)])
    /\ last' = NoLast
    /\ UNCHANGED <<trig, futs, catching, incVars, filterVars, hdcVars, cbLog>>

\* The caller w, resumed, leaves Trigger.wait with what the future f gives
\* it, through `finally: self._waited = self._future.done()`.
WaitEnds(w, t, f) ==
    LET o == AwaitDone(f, waiters[w].expired) IN
    /\ waiters' = [waiters EXCEPT ![w].pc = o.pc, ![w].val = o.val, ![w].err = o.err]
    /\ trig' = [trig EXCEPT ![t] = WaitFinally(@, futs[t])]

\* The event loop runs what is first in its queue, a callback of future g of
\* Trigger t or the wake-up of a caller suspended on it:
\* "remove", InterruptControl's removal from the registry (a KeyError it
\* raises is logged by the loop); "user", a callback of the application;
\* "wake", the caller of wait without a timeout resumes and wait runs to its
\* end; "release", asyncio.wait_for's callback releases its caller, whose
\* wake-up joins the queue; "resume", the caller of wait with a timeout
\* resumes: wait ends when the future is done, else the deadline is handled
\* and the caller suspends until the cancelled future's callbacks have run.
RunCallback(t, g) ==
    /\ ready # <<>>
    /\ Head(ready).t = t /\ Head(ready).g = g
    /\ LET cb == Head(ready).cb
           w == cb.arg
       IN CASE cb.op = "remove" ->
                 /\ inc_triggers' =
                      IF PDHas(inc_triggers[cb.arg], t)
                      THEN [inc_triggers EXCEPT ![cb.arg] = PDRemove(@, t)]
                      ELSE inc_triggers
                 /\ ready' = Tail(ready)
                 /\ UNCHANGED <<trig, futs, waiters, cbLog>>
            [] cb.op = "user" ->
                 /\ cbLog' = [cbLog EXCEPT !.ran[g] = @ + 1]
                 /\ ready' = Tail(ready)
                 /\ UNCHANGED <<trig, futs, waiters, inc_triggers>>
            [] cb.op = "wake" ->
                 /\ WaitEnds(w, t, futs[t][g])
                 /\ ready' = Tail(ready)
                 /\ UNCHANGED <<futs, inc_triggers, cbLog>>
            [] cb.op = "release" ->
                 /\ IF waiters[w].pc = "susp" /\ waiters[w].fut = g /\ ~waiters[w].rel
                    THEN /\ waiters' = [waiters EXCEPT ![w].rel = TRUE]
                         /\ ready' = Append(Tail(ready), [t |-> t, g |-> g, cb |-> ResumeCb(w)])
                    ELSE /\ ready' = Tail(ready)
                         /\ UNCHANGED waiters
                 /\ UNCHANGED <<trig, futs, inc_triggers, cbLog>>
            [] cb.op = "resume" ->
                 IF FutDone(futs[t][g])
                 THEN /\ WaitEnds(w, t, futs[t][g])
                      /\ ready' = Tail(ready)
                      /\ UNCHANGED <<futs, inc_triggers, cbLog>>
                 ELSE LET fs == WaitForDeadline(futs[t], g, w) IN
                      /\ futs' = [futs EXCEPT ![t] = Scheduled(fs)]
                      /\ ready' = Tail(ready) \o Due(t, fs, 1)
                      /\ waiters' = [waiters EXCEPT ![w].expired = TRUE, ![w].rel = FALSE]
                      /\ UNCHANGED <<trig, inc_triggers, cbLog>>
    /\ last' = NoLast
    /\ UNCHANGED <<catching, incBus, filterVars, hdcVars>>

\* The callback fn of the application, as asyncio holds it on a future.
UserCb == [op |-> "user", arg |-> "fn"]

\* Most add_done_callback calls the application makes.
MaxCb == 2

\* trigger.add_done_callback(fn). cbLog counts the call for the slot it is
\* made for: the current one, or the first one when the Trigger has none yet.
\* On a slot that is terminal already asyncio schedules fn at once.
AddDoneCallback(t) ==
    /\ cbLog.added[1] + cbLog.added[MaxFut] < MaxCb
    /\ LET fs == Trigger_add_done_callback(trig[t], futs[t], UserCb) IN
       /\ futs' = [futs EXCEPT ![t] = Scheduled(fs)]
       /\ ready' = ready \o Due(t, fs, 1)
    /\ cbLog' = [cbLog EXCEPT !.added[IF trig[t].future = 0 THEN 1 ELSE trig[t].future] = @ + 1]
    /\ last' = NoLast
    /\ UNCHANGED <<trig, waiters, catching, incVars, filterVars, hdcVars>>

\* ------------------------------------------------------- InterruptControl
\* The Trigger InterruptControl.wait constructs next.
NextWrap == IF ~trig["W1"].made THEN "W1" ELSE "W2"

\* await inc.wait(x, timeout, priority), x a Trigger or a Filter, up to the
\* first suspension of trigger.wait.
InterruptControl_wait(w, x, tmo, p) ==
    /\ NextWaiter(w)
    /\ x \in FilterIds => ~trig["W2"].made
    /\ LET isF == x \in FilterIds
           event_name == IF isF THEN FilterObj(x).event_name ELSE trig[x].event_name
           t == IF isF THEN NextWrap ELSE x
           tr0 == IF isF THEN Trigger_init(x, p, "None") ELSE trig[x]
           reg == [WithKey(inc_triggers, event_name) EXCEPT
                      ![event_name] = PDAdd(@, tr0.priority, t)]
           fs1 == Trigger_add_done_callback(tr0, futs[t], RemoveCb(event_name))
           r == Trigger_wait(tr0, fs1, w,
                    [IdleWaiter EXCEPT !.t = t, !.inc = TRUE,
                                       !.flt = IF isF THEN x ELSE ""], tmo)
       IN /\ tr0.future # 0 \/ Len(futs[t]) < MaxFut
          /\ inc_triggers' = reg
          /\ incBus' = BusAfterRegister(incBus, inc_triggers, event_name)
          /\ trig' = [trig EXCEPT ![t] = r.tr]
          /\ futs' = [futs EXCEPT ![t] = Scheduled(r.fs)]
          /\ ready' = ready \o Due(t, r.fs, 1)
          /\ waiters' = [waiters EXCEPT ![w] = r.wt]
    /\ last' = NoLast
    /\ UNCHANGED <<catching, filterVars, hdcVars, cbLog>>

\* The payload the Filter of a suspended InterruptControl.wait(filter) call
\* extracts from e, when it is the first it captures.
FirstMatch(wt, e) ==
    IF /\ wt.pc = "susp" /\ ~wt.rel /\ ~wt.expired /\ wt.inc /\ wt.flt # ""
       /\ FilterObj(wt.flt).event_name = e.kind
       /\ wt.match = NoneV
       /\ IsNotNone(Filter_catch(FilterObj(wt.flt), e).out)
    THEN Filter_catch(FilterObj(wt.flt), e).out
    ELSE wt.match

RECURSIVE DueOf(_, _, _)
\* The callbacks handed to the loop for the Triggers ts, from index i on.
DueOf(fu, ts, i) ==
    IF i > Len(ts) THEN <<>> ELSE Due(ts[i], fu[ts[i]], 1) \o DueOf(fu, ts, i + 1)

\* The bus delivers e to the adapter InterruptControl._new_handler registered.
InterruptControl_handler(e) ==
    /\ e.kind \in DOMAIN inc_triggers
    /\ LET r == IncOuter(PDIter(inc_triggers[e.kind]), 1, trig, futs, e) IN
       /\ futs' = [t \in TriggerIds |-> Scheduled(r.futs[t])]
       /\ ready' = ready \o DueOf(r.futs, r.offered, 1)
       /\ last' = EmitLast(e, r.offered)
    /\ waiters' = [w \in Waiters |-> [waiters[w] EXCEPT !.match = FirstMatch(waiters[w], e)]]
    /\ UNCHANGED <<trig, catching, inc_triggers, incBus, filterVars, hdcVars, cbLog>>

Next ==
    \/ Reset("T1")
    \/ Catch("T1", Ev("Ping", 42))
    \/ \E w \in Waiters : Timeout(w)
    \/ \E t \in TriggerIds, g \in 1..MaxFut : RunCallback(t, g)
    \/ \E w \in Waiters, x \in {"T1", "T2"} \cup IncFilters, tmo \in BOOLEAN,
          p \in IncPriorities :
          InterruptControl_wait(w, x, tmo, IF x \in IncFilters THEN p ELSE 0)
    \/ \E e \in {Ev("Ping", 7), Ev("Ping", 42), Ev("Pong", 42)} : InterruptControl_handler(e)

Spec == Init /\ [][Next]_vars

\* The application using one Trigger alone, with one caller of wait; the
\* filter may be replaced, and may suspend.
TriggerNext ==
    \/ Reset("T1")
    \/ \E fn \in {"is42", "strict"} : SetFilter("T1", fn)
    \/ \E e \in PingEvents : Catch("T1", e)
    \/ \E e \in PingEvents : CatchCall("T1", e)
    \/ \E e \in PingEvents : CatchResume("T1", e)
    \/ \E tmo \in BOOLEAN : WaitCall("w1", "T1", tmo)
    \/ Timeout("w1")
    \/ \E g \in 1..MaxFut : RunCallback("T1", g)

TriggerSpec == Init /\ [][TriggerNext]_vars

\* -------------------------------------------------------------- FilterSpec
\* result = filter.catch(event)
FilterApply ==
    /\ fOut.pc = "idle"
    /\ LET r == Filter_catch(fIn.f, fIn.e) IN
       fOut' = [pc |-> "done", out |-> r.out, calls |-> r.calls]
    /\ UNCHANGED <<fIn, trigVars, incVars, last, hdcVars, cbLog>>

FilterSpec == FilterInit /\ [][FilterApply]_vars

\* One Trigger, its catches running their filter without suspending.
WaitNext ==
    \/ Reset("T1")
    \/ \E e \in Events : Catch("T1", e)
    \/ \E w \in Waiters, tmo \in BOOLEAN : WaitCall(w, "T1", tmo)
    \/ \E w \in Waiters : Timeout(w)
    \/ \E g \in 1..MaxFut : RunCallback("T1", g)

\* The event loop runs every timer that is due and every callback that is
\* ready: a deadline that has been set passes, and the callbacks of a future
\* that is done are run.
\* Two callers of wait on one Trigger.
WaitSpec == Init /\ [][WaitNext]_vars

TriggerLive ==
    /\ Init /\ [][WaitNext]_vars
    /\ \A w \in Waiters : WF_vars(Timeout(w))
    /\ \A g \in 1..MaxFut : WF_vars(RunCallback("T1", g))

\* ========================================================== HandlerControl
\* The filters and the handlers (coroutine functions) of the subscriptions,
\* and the priorities they are subscribed with.
HdcFilters == {"Fany", "Fboom"}

Handlers == {"H1", "H2", "H3"}

HdcPriorities == {0, 10}

\* Most entries (a pair at a priority) the table of one event kind holds at
\* one time.
MaxSubs == 3

\* The tuple (filter_, func) the registry holds.
Pair(f, h) == [f |-> f, h |-> h]

\* func(event, payload)
Invocation(h, e, payload) == [h |-> h, e |-> e, payload |-> payload]

RECURSIVE HdcInner(_, _, _)
\* `for filter_, func in list(filters)`, from index i of one bucket: the
\* calls func(event, payload) made, and whether filter_.catch raised.
HdcInner(bucket, i, e) ==
    IF i > Len(bucket) THEN [raised |-> FALSE, called |-> <<>>]
    ELSE LET payload == Filter_catch(FilterObj(bucket[i].f), e).out IN
         IF payload.tag = "raise" THEN [raised |-> TRUE, called |-> <<>>]
         ELSE LET rest == HdcInner(bucket, i + 1, e)
                  here == IF IsNotNone(payload)
                          THEN <<Invocation(bucket[i].h, e, payload)>> ELSE <<>>
              IN [raised |-> rest.raised, called |-> here \o rest.called]

RECURSIVE HdcOuter(_, _, _)
\* `for filters in self._handlers[event_name]`, from bucket b.
HdcOuter(buckets, b, e) ==
    IF b > Len(buckets) THEN [raised |-> FALSE, called |-> <<>>]
    ELSE LET r == HdcInner(buckets[b], 1, e) IN
         IF r.raised THEN r
         ELSE LET rest == HdcOuter(buckets, b + 1, e) IN
              [raised |-> rest.raised, called |-> r.called \o rest.called]

\* The adapter handled e: `called` are the func(event, payload) calls it made,
\* `ran` the coroutines among them that asyncio.gather scheduled; ret is
\* "raise" when a filter's exception left the adapter before gather.
DispatchLast(e, r) ==
    [NoLast EXCEPT !.op = "dispatch", !.e = e,
                   !.ret = IF r.raised THEN "raise" ELSE "ok",
                   !.called = r.called,
                   !.ran = IF r.raised THEN <<>> ELSE r.called]

\* hdc.subscribe(filter, func, priority): the pair is added at that priority
\* whatever the table holds, also when it is subscribed at another one.
HandlerControl_subscribe(f, h, p) ==
    LET event_name == FilterObj(f).event_name
        reg == WithKey(hdc_handlers, event_name)
        entry == [p |-> p, v |-> Pair(f, h)]
    IN /\ \/ \E i \in DOMAIN reg[event_name].ents : reg[event_name].ents[i] = entry
          \/ Len(reg[event_name].ents) < MaxSubs
       /\ hdc_handlers' = [reg EXCEPT ![event_name] = PDAdd(@, p, Pair(f, h))]
       /\ hdcBus' = BusAfterRegister(hdcBus, hdc_handlers, event_name)
       /\ last' = NoLast
       /\ UNCHANGED <<trigVars, incVars, filterVars, cbLog, disp>>

\* A mutant of UnsubscribeTable: the pairs are matched by their handler.
UnsubscribeTableByFunc(tbl, f, h) ==
    LET event_name == FilterObj(f).event_name
        hit == IF event_name \in DOMAIN tbl
               THEN {i \in DOMAIN tbl[event_name].ents : tbl[event_name].ents[i].v.h = h}
               ELSE {}
    IN IF hit = {} THEN [tbl |-> tbl, ret |-> "warning"]
       ELSE [tbl |-> [tbl EXCEPT ![event_name] =
                        [ents |-> SelectSeq(@.ents, LAMBDA x : x.v.h # h)]],
             ret |-> "ok"]

\* HandlerControl.unsubscribe on the table tbl: the table after it, and "ok"
\* or "warning" when the KeyError of `self._handlers[...]` (no table for the
\* kind) or of PriorityDict.remove (pair not in it) was caught and logged.
UnsubscribeTable(tbl, f, h) ==
    LET event_name == FilterObj(f).event_name IN
    IF event_name \in DOMAIN tbl /\ PDHas(tbl[event_name], Pair(f, h))
    THEN [tbl |-> [tbl EXCEPT ![event_name] = PDRemove(@, Pair(f, h))], ret |-> "ok"]
    ELSE [tbl |-> tbl, ret |-> "warning"]

\* hdc.unsubscribe(filter, func)
HandlerControl_unsubscribe(f, h) ==
    LET r == UnsubscribeTable(hdc_handlers, f, h) IN
    /\ hdc_handlers' = r.tbl
    /\ last' = [NoLast EXCEPT !.op = "unsubscribe", !.ret = r.ret, !.pair = Pair(f, h)]
    /\ UNCHANGED <<hdcBus, trigVars, incVars, filterVars, cbLog, disp>>

\* A mutant of HandlerControl_handler: the adapter walks the pairs of every
\* event kind of the table.
HandlerControl_handler_every_kind(e) ==
    /\ e.kind \in DOMAIN hdc_handlers
    /\ LET of(k) == IF k \in DOMAIN hdc_handlers THEN PDIter(hdc_handlers[k]) ELSE <<>>
       IN last' = DispatchLast(e, HdcOuter(of("Ping") \o of("Pong"), 1, e))
    /\ UNCHANGED <<hdcVars, trigVars, incVars, filterVars, cbLog>>

\* The bus delivers e to the adapter HandlerControl._new_handler registered.
HandlerControl_handler(e) ==
    /\ e.kind \in DOMAIN hdc_handlers
    /\ last' = DispatchLast(e, HdcOuter(PDIter(hdc_handlers[e.kind]), 1, e))
    /\ UNCHANGED <<hdcVars, trigVars, incVars, filterVars, cbLog>>

HandlerNext ==
    \/ \E f \in HdcFilters, h \in Handlers, p \in HdcPriorities :
          HandlerControl_subscribe(f, h, p)
    \/ \E f \in HdcFilters, h \in Handlers : HandlerControl_unsubscribe(f, h)
    \/ \E e \in Events : HandlerControl_handler(e)

HandlerSpec == Init /\ [][HandlerNext]_vars

\* ---------------------------------------- HandlerControl, re-entrant calls
\* A filter or a handler that is a plain function runs inside the adapter's
\* loop body and may call hdc.subscribe / hdc.unsubscribe there: the dispatch
\* is taken one loop iteration at a time.

RECURSIVE SortedPrios(_)
\* The priorities ps in ascending order, as PriorityDict.__iter__ yields them.
SortedPrios(ps) ==
    IF ps = {} THEN <<>>
    ELSE LET p == CHOOSE x \in ps : \A y \in ps : x <= y
         IN <<p>> \o SortedPrios(ps \ {p})

\* The bucket of priority p as it is now: its values in insertion order.
PDBucket(pd, p) ==
    LET b == SelectSeq(pd.ents, LAMBDA x : x.p = p) IN [i \in 1..Len(b) |-> b[i].v]

\* A mutant of BucketIterated: the loop walks the bucket itself by position.
BucketIteratedLive(snapshot, live) == live

\* `for filter_, func in list(filters)`: the loop walks the list made when
\* the bucket's iteration started, whatever the bucket holds by now.
BucketIterated(snapshot, live) == snapshot

\* The bucket the dispatch is in, as it is now.
DispLive == PDBucket(hdc_handlers[disp.e.kind], disp.prios[disp.b])

\* What the inner for of the dispatch in progress iterates.
DispIter == BucketIterated(disp.snap, DispLive)

\* The bus delivers e to the adapter, which enters its first bucket.
DispatchBegin(e) ==
    /\ disp.pc = "idle"
    /\ e.kind \in DOMAIN hdc_handlers
    /\ LET pd == hdc_handlers[e.kind]
           ps == SortedPrios({pd.ents[i].p : i \in DOMAIN pd.ents})
       IN disp' = IF ps = <<>> THEN [DispIdle EXCEPT !.pc = "done", !.e = e]
                  ELSE [DispIdle EXCEPT !.pc = "inner", !.e = e, !.prios = ps,
                                        !.b = 1, !.i = 1,
                                        !.snap = PDBucket(pd, ps[1])]
    /\ last' = NoLast
    /\ UNCHANGED <<hdc_handlers, hdcBus, trigVars, incVars, filterVars, cbLog>>

\* One iteration of the inner for (filter_.catch, then func when the payload
\* is not None), or the move to the next bucket, or the end of the loops.
DispatchStep ==
    /\ disp.pc = "inner"
    /\ LET it == DispIter
           pd == hdc_handlers[disp.e.kind]
       IN IF disp.i > Len(it)
          THEN IF disp.b = Len(disp.prios)
               THEN disp' = [disp EXCEPT !.pc = "done"]
               ELSE disp' = [disp EXCEPT !.b = @ + 1, !.i = 1, !.visited = <<>>,
                                         !.snap = PDBucket(pd, disp.prios[disp.b + 1])]
          ELSE LET payload == Filter_catch(FilterObj(it[disp.i].f), disp.e).out IN
               IF payload.tag = "raise"
               THEN disp' = [disp EXCEPT !.pc = "failed",
                                         !.visited = Append(@, it[disp.i])]
               ELSE disp' = [disp EXCEPT
                               !.i = @ + 1,
                               !.visited = Append(@, it[disp.i]),
                               !.called = IF IsNotNone(payload)
                                          THEN Append(@, Invocation(it[disp.i].h, disp.e, payload))
                                          ELSE @]
    /\ last' = NoLast
    /\ UNCHANGED <<hdc_handlers, hdcBus, trigVars, incVars, filterVars, cbLog>>

\* `return asyncio.gather(...)`, or the filter's exception leaves the adapter.
DispatchEnd ==
    /\ disp.pc \in {"done", "failed"}
    /\ last' = DispatchLast(disp.e, [raised |-> disp.pc = "failed", called |-> disp.called])
    /\ disp' = DispIdle
    /\ UNCHANGED <<hdc_handlers, hdcBus, trigVars, incVars, filterVars, cbLog>>

\* hdc is called at priority p from outside a dispatch, or from the loop
\* body of the bucket of priority p that the dispatch is iterating.
CallAt(p) ==
    IF disp.pc = "idle" THEN TRUE
    ELSE IF disp.pc = "inner" THEN disp.i > 1 /\ disp.prios[disp.b] = p
    ELSE FALSE

\* The priorities the pair is subscribed at, or p alone when it is not
\* subscribed.
PrioritiesOf(f, h, p) ==
    LET k == FilterObj(f).event_name
        all == IF k \in DOMAIN hdc_handlers THEN hdc_handlers[k].ents ELSE <<>>
        hit == {all[i].p : i \in {j \in DOMAIN all : all[j].v = Pair(f, h)}}
    IN IF hit = {} THEN {p} ELSE hit

ReentrantEvents == {Ev("Ping", 0), Ev("Ping", 42)}

\* hdc.subscribe called from outside a dispatch or from its loop body.
ReentrantSubscribe(f, h, p) == CallAt(p) /\ HandlerControl_subscribe(f, h, p)

\* hdc.unsubscribe called from outside a dispatch or from its loop body.
ReentrantUnsubscribe(f, h, p) ==
    (\E q \in PrioritiesOf(f, h, p) : CallAt(q)) /\ HandlerControl_unsubscribe(f, h)

\* The subscriptions made: two pairs that may be at either priority, also at
\* both, and a pair whose filter raises for Ping{0}.
ReentrantSubs ==
    {<<"Fany", "H1", 0>>, <<"Fany", "H1", 10>>, <<"Fany", "H2", 0>>,
     <<"Fany", "H2", 10>>, <<"Fboom", "H1", 0>>}

ReentrantNext ==
    \/ \E s \in ReentrantSubs : ReentrantSubscribe(s[1], s[2], s[3])
    \/ \E s \in ReentrantSubs : ReentrantUnsubscribe(s[1], s[2], s[3])
    \/ \E e \in ReentrantEvents : DispatchBegin(e)
    \/ DispatchStep
    \/ DispatchEnd

ReentrantSpec == Init /\ [][ReentrantNext]_vars

\* One Trigger with callbacks the application adds.
CallbackNext ==
    \/ AddDoneCallback("T1")
    \/ Reset("T1")
    \/ \E e \in {Ev("Ping", 0), Ev("Ping", 7), Ev("Ping", 42)} : Catch("T1", e)
    \/ \E w \in Waiters, tmo \in BOOLEAN : WaitCall(w, "T1", tmo)
    \/ \E w \in Waiters : Timeout(w)
    \/ \E g \in 1..MaxFut : RunCallback("T1", g)

CallbackSpec == Init /\ [][CallbackNext]_vars

\* One Trigger constructed without a filter, which may be given one later.
NoFilterNext ==
    \/ Reset("T3")
    \/ SetFilter("T3", "is42")
    \/ TriggerCall("T3", "strict")
    \/ \E e \in Events : Catch("T3", e)
    \/ \E w \in Waiters, tmo \in BOOLEAN : WaitCall(w, "T3", tmo)
    \/ \E w \in Waiters : Timeout(w)
    \/ \E g \in 1..MaxFut : RunCallback("T3", g)

NoFilterSpec == Init /\ [][NoFilterNext]_vars

\* Both controllers on one bus, with filters of two event kinds.
BusNext ==
    \/ \E f \in {"Fany", "Fpong"} : HandlerControl_subscribe(f, "H1", 0)
    \/ \E f \in {"Fany", "Fpong"} : HandlerControl_unsubscribe(f, "H1")
    \/ \E w \in Waiters, x \in {"T1", "F42", "Fpong"} :
          InterruptControl_wait(w, x, x = "T1", 0)
    \/ Reset("T1")
    \/ Catch("T1", Ev("Ping", 42))
    \/ \E w \in Waiters : Timeout(w)
    \/ \E t \in TriggerIds, g \in 1..MaxFut : RunCallback(t, g)

BusSpec == Init /\ [][BusNext]_vars

\* Both controllers with Triggers and pairs of two event kinds, and events of
\* both kinds delivered to both.
KindFilters == {"Fany", "Fpong"}

KindHandlers == {"H1", "H2"}

KindEvents == {Ev("Ping", 42), Ev("Pong", 42)}

KindNext ==
    \/ \E f \in KindFilters, h \in KindHandlers : HandlerControl_subscribe(f, h, 0)
    \/ \E f \in KindFilters, h \in KindHandlers : HandlerControl_unsubscribe(f, h)
    \/ \E w \in Waiters, x \in {"T1", "Fpong"}, tmo \in BOOLEAN :
          InterruptControl_wait(w, x, tmo, 0)
    \/ \E w \in Waiters : Timeout(w)
    \/ \E t \in TriggerIds, g \in 1..MaxFut : RunCallback(t, g)
    \/ \E e \in KindEvents : InterruptControl_handler(e)
    \/ \E e \in KindEvents : HandlerControl_handler(e)

KindSpec == Init /\ [][KindNext]_vars

\* ================================================================== claims
\* The slot of a Trigger as its callers see it.
SlotOutcome(tr, fs) ==
    IF tr.future = 0 THEN [state |-> "absent", value |-> NoneV]
    ELSE [state |-> fs[tr.future].state, value |-> fs[tr.future].value]

\* C1: once a slot is terminal (resolved, failed or cancelled) its outcome
\* never changes again, so each slot leaves "pending" at most once, and
\* every Trigger.catch call that ends on a Trigger whose current slot is
\* terminal returns False.
C1_SingleResolution ==
    [][\A t \in DeclTriggers :
         /\ \A g \in 1..Len(futs[t]) :
               FutDone(futs[t][g]) =>
                   /\ futs'[t][g].state = futs[t][g].state
                   /\ futs'[t][g].value = futs[t][g].value
         /\ (/\ trig[t].future # 0
             /\ FutDone(futs[t][trig[t].future])
             /\ last'.op = "catch" /\ last'.t = t) => last'.ret = "False"]_vars

\* C1's case: T1 was resolved with 42 and a later catch of an event its
\* filter accepts returned False.
C1_Witness ==
    /\ last.op = "catch" /\ last.t = "T1" /\ last.ret = "False"
    /\ IsNotNone(CallFunc(trig["T1"].filter, last.e))
    /\ trig["T1"].future # 0
    /\ SlotOutcome(trig["T1"], futs["T1"]) = [state |-> "result", value |-> Val(42)]

\* The wait of caller v on Trigger t completed by returning (a captured
\* payload, or None at its deadline) and t was not reset since v called.
CompletedWait(v, t) ==
    /\ waiters[v].pc = "ret"
    /\ waiters[v].t = t
    /\ waiters[v].fut = trig[t].future

\* C6: a call of Trigger.wait on a Trigger on which an earlier wait already
\* completed (with a result or by its deadline), with no reset in between,
\* raises RuntimeError at once: it neither suspends nor returns a value.
C6_SecondWaitRaises ==
    [][\A w \in Waiters :
         (/\ waiters[w].pc = "idle"
          /\ waiters'[w].pc # "idle"
          /\ \E v \in Waiters \ {w} : CompletedWait(v, waiters'[w].t))
         => /\ waiters'[w].pc = "raised"
            /\ waiters'[w].err = "RuntimeError"]_vars

\* C6's case: w1's wait ended at its deadline, and w2's wait on the same
\* Trigger, not reset since, raised RuntimeError.
C6_Witness ==
    /\ CompletedWait("w1", "T1")
    /\ waiters["w1"].expired
    /\ waiters["w2"].t = "T1"
    /\ waiters["w2"].pc = "raised"
    /\ waiters["w2"].err = "RuntimeError"

\* C7: a wait with timeout > 0 never stays suspended for ever, and when it
\* ends because its own deadline expired it returns None and does not raise;
\* a wait with timeout <= 0 has no deadline: it never expires, and it leaves
\* its suspension only in a step that finds its slot terminal.
C7_TimeoutSemantics ==
    /\ \A w \in Waiters :
          (waiters[w].pc = "susp" /\ waiters[w].tmo) ~> (waiters[w].pc # "susp")
    /\ [](\A w \in Waiters :
            /\ (waiters[w].pc \in {"ret", "raised"} /\ waiters[w].expired)
                  => (waiters[w].pc = "ret" /\ waiters[w].val = NoneV)
            /\ ~waiters[w].tmo => ~waiters[w].expired)
    /\ [][\A w \in Waiters :
            (waiters[w].pc = "susp" /\ waiters'[w].pc # "susp")
               => FutDone(futs[waiters[w].t][waiters[w].fut])]_vars

\* C7's case: a wait with a deadline on a Trigger no event captured ended at
\* the deadline and returned None.
C7_Witness ==
    \E w \in Waiters :
        /\ waiters[w].pc = "ret" /\ waiters[w].tmo /\ waiters[w].expired
        /\ waiters[w].val = NoneV
        /\ futs[waiters[w].t][waiters[w].fut].state = "cancelled"

\* reset() followed at once by catch(e) on the Trigger tr: what catch returns
\* and the slot afterwards.
ResetThenCatch(tr, fs, e) ==
    LET r == Trigger_reset(tr, fs)
        c == Trigger_catch(r.tr, r.fs, e)
    IN [ret |-> c.ret, slot |-> SlotOutcome(r.tr, c.fs)]

\* catch(e) on a newly constructed Trigger with the construction arguments
\* of tr.
FreshCatch(tr, e) ==
    LET n == Trigger_init(tr.event_name, tr.priority, tr.filter)
        c == Trigger_catch(n, <<>>, e)
    IN [ret |-> c.ret, slot |-> SlotOutcome(n, c.fs)]

\* C8 as the specification states it: whatever the Trigger went through,
\* reset() then catch(e) gives the return value and the slot outcome of
\* catch(e) on a newly constructed Trigger with the same filter.
C8_ResetAsFresh ==
    \A e \in Events :
        ResetThenCatch(trig["T1"], futs["T1"], e) = FreshCatch(trig["T1"], e)

\* C8 (amended): whatever the Trigger went through, reset() then catch(e)
\* gives the return value and the slot outcome that reset() then catch(e)
\* gives on a newly constructed Trigger with the same filter.
C8_ResetAsFreshReset ==
    \A e \in Events :
        ResetThenCatch(trig["T1"], futs["T1"], e)
            = ResetThenCatch(Trigger_init(trig["T1"].event_name, trig["T1"].priority,
                                          trig["T1"].filter), <<>>, e)

\* C8's case: T1 was resolved and awaited, then reset, and the catch after
\* the reset captured 42 in the new slot.
C8_Witness ==
    /\ Len(futs["T1"]) = 2
    /\ futs["T1"][1].state = "result"
    /\ \E w \in Waiters : waiters[w].t = "T1" /\ waiters[w].fut = 1 /\ waiters[w].pc = "ret"
    /\ trig["T1"].future = 2
    /\ last.op = "catch" /\ last.t = "T1" /\ last.ret = "True"
    /\ SlotOutcome(trig["T1"], futs["T1"]) = [state |-> "result", value |-> Val(42)]

\* Trigger t is in InterruptControl's registry for event kind k.
Registered(t, k) == k \in DOMAIN inc_triggers /\ PDHas(inc_triggers[k], t)

\* The current slot of t exists and is unresolved.
SlotPending(t) == trig[t].future # 0 /\ futs[t][trig[t].future].state = "pending"

\* The declared Trigger t is registered and unresolved, a caller is suspended
\* in InterruptControl.wait on it, and its filter captures e.
WaitingMatch(t, e) ==
    /\ Registered(t, e.kind)
    /\ SlotPending(t)
    /\ \E w \in Waiters : /\ waiters[w].pc = "susp" /\ waiters[w].inc
                          /\ waiters[w].t = t /\ waiters[w].fut = trig[t].future
    /\ trig[t].event_name = e.kind
    /\ IsNotNone(CallFunc(trig[t].filter, e))

\* C2 as the specification states it: when T1 (priority 1) and T2
\* (priority 5) are the registered Triggers, both unresolved and both
\* matching the dispatched event e, the dispatch resolves T1 with the payload
\* its filter extracts and leaves T2 unresolved and registered.
C2_PriorityOrdering ==
    [][(/\ last'.op = "emit"
        /\ WaitingMatch("T1", last'.e) /\ WaitingMatch("T2", last'.e)
        /\ ~Registered("W1", last'.e.kind) /\ ~Registered("W2", last'.e.kind))
       => /\ futs'["T1"][trig["T1"].future].state = "result"
          /\ futs'["T1"][trig["T1"].future].value = CallFunc(trig["T1"].filter, last'.e)
          /\ futs'["T2"][trig["T2"].future].state = "pending"
          /\ PDHas(inc_triggers'[last'.e.kind], "T2")]_vars

\* The slots a step takes from unresolved to captured (result or exception).
CapturedInStep(t) ==
    \E g \in 1..Len(futs[t]) :
        /\ futs[t][g].state = "pending"
        /\ futs'[t][g].state \in {"result", "exception"}

\* C3: one dispatched event takes the slot of at most one registered Trigger
\* from unresolved to captured, and once a Trigger captured it no further
\* Trigger is offered the event.
C3_AtMostOneCapture ==
    [][last'.op = "emit" =>
          /\ Cardinality({t \in TriggerIds : CapturedInStep(t)}) <= 1
          /\ \A i \in DOMAIN last'.offered :
                CapturedInStep(last'.offered[i]) => i = Len(last'.offered)]_vars

\* C3's case: an event that the filters of both T1 and T2 capture was
\* dispatched while both were registered, unresolved and waited on, and was
\* offered to T1 alone.
C3_Witness ==
    /\ last.op = "emit"
    /\ WaitingMatch("T1", last.e) /\ WaitingMatch("T2", last.e)
    /\ last.offered = <<"T1">>

\* The event kind a call of InterruptControl.wait registered its Trigger for.
WaitKind(wt) ==
    IF wt.flt # "" THEN FilterObj(wt.flt).event_name ELSE trig[wt.t].event_name

\* C4 as the specification states it: once a call of InterruptControl.wait
\* has returned and every done-callback of its Trigger has run, the Trigger
\* is not in the registry (no other call was made on that Trigger).
C4_CleanupOnCompletion ==
    \A w \in Waiters :
        (/\ waiters[w].inc
         /\ waiters[w].pc = "ret"
         /\ \A v \in Waiters \ {w} : waiters[v].t # waiters[w].t
         /\ \A g \in 1..Len(futs[waiters[w].t]) : futs[waiters[w].t][g].cbs = <<>>
         /\ \A i \in DOMAIN ready : ready[i].t # waiters[w].t)
        => ~Registered(waiters[w].t, WaitKind(waiters[w]))

\* C5 as the specification states it: a call of InterruptControl.wait(filter)
\* that returns after an event its filter captures was dispatched during its
\* suspension, before its deadline, returns the payload the filter extracted
\* from the first such event.
C5_FilterWaitReturnsMatch ==
    \A w \in Waiters :
        (/\ waiters[w].inc /\ waiters[w].flt # ""
         /\ waiters[w].pc \in {"ret", "raised"}
         /\ waiters[w].match # NoneV)
        => (waiters[w].pc = "ret" /\ waiters[w].val = waiters[w].match)

\* What the i-th mixed-in filter of f returns for e, called on its own.
MixOut(f, e, i) == Filter_catch(f.mixin[i], e).out

\* The first mixin of f that does not return a non-absent value for e (it
\* returns None or raises); Len + 1 when every mixin returns one.
FirstStop(f, e) ==
    IF \A i \in DOMAIN f.mixin : IsNotNone(MixOut(f, e, i)) THEN Len(f.mixin) + 1
    ELSE CHOOSE i \in DOMAIN f.mixin :
            /\ ~IsNotNone(MixOut(f, e, i))
            /\ \A j \in 1..(i - 1) : IsNotNone(MixOut(f, e, j))

RECURSIVE MixCalls(_, _, _)
\* The extractor invocations of the mixins 1..n of f, each called on its own.
MixCalls(f, e, n) ==
    IF n = 0 THEN <<>>
    ELSE MixCalls(f, e, n - 1) \o Filter_catch(f.mixin[n], e).calls

\* C10: Filter.catch returns a non-absent value iff every mixed-in filter's
\* catch and the filter's own extractor (the event itself without one) return
\* a non-absent value, and it is then the extractor's result; absence is
\* identity with None, so 0 is a match; the mixins are evaluated in list
\* order, and after the first mixin that returns None no further mixin and
\* no own extractor is invoked.
C10_FilterCatch ==
    fOut.pc = "done" =>
        LET f == fIn.f
            e == fIn.e
            k == FirstStop(f, e)
            own == Filter__catch(f, e)
        IN /\ IsNotNone(fOut.out) <=>
                 /\ \A i \in DOMAIN f.mixin : IsNotNone(MixOut(f, e, i))
                 /\ IsNotNone(own.out)
           /\ IsNotNone(fOut.out) => fOut.out = own.out
           /\ (own.out = Val(0) /\ k > Len(f.mixin)) => fOut.out = Val(0)
           /\ k <= Len(f.mixin) =>
                 /\ fOut.out = MixOut(f, e, k)
                 /\ fOut.calls = MixCalls(f, e, k)
           /\ k > Len(f.mixin) =>
                 fOut.calls = MixCalls(f, e, Len(f.mixin)) \o own.calls

\* C10's case: mixins [A, B], A returns None and B a payload: catch returned
\* None and invoked A's extractor only.
C10_Witness ==
    /\ fOut.pc = "done"
    /\ Len(fIn.f.mixin) = 2
    /\ MixOut(fIn.f, fIn.e, 1) = NoneV
    /\ IsNotNone(MixOut(fIn.f, fIn.e, 2))
    /\ fIn.f.func # "NoFunc"
    /\ fOut.out = NoneV
    /\ fOut.calls = Filter_catch(fIn.f.mixin[1], fIn.e).calls

\* The pairs subscribed for event kind k, with their priorities.
SubscribedIn(tbl, k) ==
    IF k \in DOMAIN tbl THEN {tbl[k].ents[i] : i \in DOMAIN tbl[k].ents} ELSE {}

Subscribed(k) == SubscribedIn(hdc_handlers, k)

\* C9 as the specification states it: after the dispatch of an event e, any
\* two handlers subscribed on one filter that captures e, one with a lower
\* priority than the other, have both been run with e and the payload the
\* filter extracts from e, the one with the lower priority first.
C9_FanOut ==
    last.op = "dispatch" =>
        \A a, b \in Subscribed(last.e.kind) :
            LET payload == Filter_catch(FilterObj(a.v.f), last.e).out IN
            (a.v.f = b.v.f /\ a.p < b.p /\ IsNotNone(payload))
            => \E i, j \in DOMAIN last.ran :
                  /\ i < j
                  /\ last.ran[i] = Invocation(a.v.h, last.e, payload)
                  /\ last.ran[j] = Invocation(b.v.h, last.e, payload)

\* The filter the catch call on t that ends in this step evaluated: the one
\* it read when it was called, which a set_filter since does not replace.
EvaluatedFilter(t) ==
    IF catching'[<<t, last'.e>>] # catching[<<t, last'.e>>]
    THEN catching[<<t, last'.e>>] ELSE trig[t].filter

IncKindsSeen == {WaitKind(waiters[w]) : w \in {v \in Waiters : waiters[v].inc}}

\* C12: each controller has exactly one adapter on the bus for every event
\* kind it has seen and none for the other kinds: InterruptControl for the
\* kinds wait was called for, HandlerControl for the kinds of its table,
\* which holds every kind with a subscribed pair; and no step removes an
\* adapter or adds a second one.
C12_OneAdapterPerKind ==
    /\ [](\A k \in Kinds :
            /\ incBus[k] = IF k \in IncKindsSeen THEN 1 ELSE 0
            /\ hdcBus[k] = IF k \in DOMAIN hdc_handlers THEN 1 ELSE 0
            /\ Subscribed(k) # {} => hdcBus[k] = 1)
    /\ [][\A k \in Kinds :
            /\ incBus[k] = 1 => incBus'[k] = 1
            /\ hdcBus[k] = 1 => hdcBus'[k] = 1]_vars

\* C12's case: two InterruptControl.wait calls for Ping, one of them over and
\* its Trigger removed, and a Ping pair subscribed and unsubscribed again:
\* one adapter each for Ping, none for Pong.
C12_Witness ==
    /\ \A w \in Waiters : waiters[w].inc /\ WaitKind(waiters[w]) = "Ping"
    /\ waiters["w1"].pc = "ret" /\ ~Registered(waiters["w1"].t, "Ping")
    /\ "Ping" \in DOMAIN hdc_handlers /\ Subscribed("Ping") = {}
    /\ incBus = [k \in Kinds |-> IF k = "Ping" THEN 1 ELSE 0]
    /\ hdcBus = [k \in Kinds |-> IF k = "Ping" THEN 1 ELSE 0]

RECURSIVE Flatten(_)
\* The entries of a sequence of buckets, in the order a dispatch visits them.
Flatten(buckets) ==
    IF buckets = <<>> THEN <<>> ELSE Head(buckets) \o Flatten(Tail(buckets))

\* The pairs of table tbl for kind k in the order a dispatch visits them.
DispatchOrder(tbl, k) == IF k \in DOMAIN tbl THEN Flatten(PDIter(tbl[k])) ELSE <<>>

\* C13: HandlerControl.unsubscribe raises nothing; when the pair is
\* subscribed it removes that pair and no other, and the remaining pairs keep
\* their priorities and their dispatch order; when the pair is not subscribed
\* (also when nothing was ever subscribed for its kind) the table is
\* unchanged.
C13_UnsubscribeExact ==
    [][last'.op = "unsubscribe" =>
         LET pr == last'.pair
             k == FilterObj(pr.f).event_name
             was == \E x \in Subscribed(k) : x.v = pr
         IN /\ last'.ret = IF was THEN "ok" ELSE "warning"
            /\ was => /\ SubscribedIn(hdc_handlers', k) = {x \in Subscribed(k) : x.v # pr}
                      /\ DispatchOrder(hdc_handlers', k)
                            = SelectSeq(DispatchOrder(hdc_handlers, k), LAMBDA v : v # pr)
            /\ ~was => hdc_handlers' = hdc_handlers
            /\ \A j \in Kinds \ {k} : SubscribedIn(hdc_handlers', j) = Subscribed(j)]_vars

\* C13's case: a pair that is not subscribed was unsubscribed while two other
\* pairs of its kind, one of them with the same handler, are subscribed.
C13_Witness ==
    /\ last.op = "unsubscribe" /\ last.ret = "warning"
    /\ Cardinality({x.v : x \in Subscribed("Ping")}) = 2
    /\ \E x \in Subscribed("Ping") : x.v.h = last.pair.h /\ x.v.f # last.pair.f

\* C14 as the specification states it: a callback added while the slot was
\* absent or unresolved has run exactly once when that slot is terminal and
\* the loop has no callback of it left to run, and has not run while the slot
\* is absent or unresolved. (A callback added to a terminal slot is counted
\* too: the loop runs it once.)
C14_DoneCallbackOnce ==
    \A g \in 1..MaxFut :
        /\ cbLog.ran[g] <= cbLog.added[g]
        /\ (g > Len(futs["T1"]) \/ ~FutDone(futs["T1"][g])) => cbLog.ran[g] = 0
        /\ (/\ g <= Len(futs["T1"])
            /\ FutDone(futs["T1"][g])
            /\ \A i \in DOMAIN ready :
                  ~(ready[i].t = "T1" /\ ready[i].g = g /\ ready[i].cb = UserCb))
           => cbLog.ran[g] = cbLog.added[g]

\* C15 as the specification states it: a catch on T3, constructed with an
\* event kind and a priority only and given no filter since, whose slot is
\* unresolved returns True and resolves the slot with None, for any event.
C15_NoFilterCapturesAll ==
    [][(/\ last'.op = "catch" /\ last'.t = "T3"
        /\ trig["T3"].filter = "Unset"
        /\ SlotPending("T3"))
       => /\ last'.ret = "True"
          /\ futs'["T3"][trig["T3"].future].state = "result"
          /\ futs'["T3"][trig["T3"].future].value = NoneV]_vars

\* Caller w is suspended in wait on a slot of T1 that a reset replaced.
StaleWaiter(w) ==
    /\ waiters[w].pc = "susp"
    /\ waiters[w].t = "T1"
    /\ waiters[w].fut # trig["T1"].future

\* C16: a step that installs a new slot leaves it unresolved, the awaited
\* flag cleared and the old slot terminal; a slot that is no longer the
\* current one never changes its outcome, so a catch after the reset changes
\* the new slot only; a caller suspended on a replaced slot does not stay
\* suspended for ever, and when the reset cancelled its slot it ends with
\* CancelledError, with no payload.
C16_ResetCancelsStaleWait ==
    /\ [][/\ trig'["T1"].future # trig["T1"].future
             => /\ futs'["T1"][trig'["T1"].future].state = "pending"
                /\ ~trig'["T1"].waited
                /\ \A g \in 1..Len(futs["T1"]) : FutDone(futs'["T1"][g])
          /\ \A g \in 1..Len(futs["T1"]) :
                g # trig["T1"].future
                => /\ futs'["T1"][g].state = futs["T1"][g].state
                   /\ futs'["T1"][g].value = futs["T1"][g].value]_vars
    /\ [](\A w \in Waiters :
            (/\ waiters[w].pc \in {"ret", "raised"} /\ waiters[w].fut # 0
             /\ futs[waiters[w].t][waiters[w].fut].state = "cancelled"
             /\ ~waiters[w].expired)
            => (waiters[w].pc = "raised" /\ waiters[w].err = "CancelledError"))
    /\ \A w \in Waiters : StaleWaiter(w) ~> (waiters[w].pc # "susp")

\* C16's case: T1 was reset while a caller was suspended on its first slot;
\* a later catch resolved the second slot, and the caller ended with
\* CancelledError.
C16_Witness ==
    \E w \in Waiters :
        /\ waiters[w].t = "T1" /\ waiters[w].fut = 1 /\ ~waiters[w].expired
        /\ waiters[w].pc = "raised" /\ waiters[w].err = "CancelledError"
        /\ trig["T1"].future = 2
        /\ futs["T1"][1].state = "cancelled"
        /\ futs["T1"][2].state = "result"

\* No wait was called on the current slot of T1 since it was installed.
FirstWaitOnSlot ==
    \A v \in Waiters : ~(waiters[v].t = "T1" /\ waiters[v].fut = trig["T1"].future)

\* C17 as the specification states it: a wait called on T1 while its current
\* slot holds the payload of a successful catch, and no wait was called since
\* the slot was installed, returns that payload, with and without a timeout:
\* at once, or (with a timeout) suspended for one turn of the loop and then
\* returning it; and done() is true afterwards unless T1 was reset meanwhile.
C17_ResolvedBeforeWait ==
    [][\A w \in Waiters :
         /\ (/\ waiters[w].pc = "idle" /\ waiters'[w].pc # "idle"
             /\ waiters'[w].t = "T1"
             /\ SlotOutcome(trig["T1"], futs["T1"]).state = "result"
             /\ FirstWaitOnSlot)
            => \/ /\ waiters'[w].pc = "ret"
                  /\ waiters'[w].val = SlotOutcome(trig["T1"], futs["T1"]).value
                  /\ Trigger_done(trig'["T1"], futs'["T1"])
               \/ /\ waiters'[w].tmo
                  /\ waiters'[w].pc = "susp"
                  /\ waiters'[w].fut = trig["T1"].future
         /\ (/\ waiters[w].pc = "susp" /\ waiters'[w].pc # "susp"
             /\ waiters[w].t = "T1"
             /\ futs["T1"][waiters[w].fut].state = "result")
            => /\ waiters'[w].pc = "ret"
               /\ waiters'[w].val = futs["T1"][waiters[w].fut].value
               /\ waiters[w].fut = trig["T1"].future
                     => Trigger_done(trig'["T1"], futs'["T1"])]_vars

\* C20 as the specification states it: after the dispatch of an event e,
\* every subscribed pair (filter, handler) has been run, with e and the
\* payload its own filter extracts from e, if and only if its own filter
\* captures e, whatever the filters of the other pairs return or raise.
C20_HandlerIndependence ==
    last.op = "dispatch" =>
        \A a \in Subscribed(last.e.kind) :
            LET payload == Filter_catch(FilterObj(a.v.f), last.e).out IN
            IsNotNone(payload)
            <=> \E i \in DOMAIN last.ran :
                   last.ran[i] = Invocation(a.v.h, last.e, payload)

\* C18 as the specification states it: whenever a caller is suspended inside
\* InterruptControl.wait on the current, unresolved slot of its Trigger,
\* before its deadline, the Trigger is in the registry of its event kind.
C18_RegisteredWhileSuspended ==
    \A w \in Waiters :
        (/\ waiters[w].inc /\ waiters[w].pc = "susp" /\ ~waiters[w].expired
         /\ waiters[w].fut = trig[waiters[w].t].future
         /\ SlotPending(waiters[w].t))
        => Registered(waiters[w].t, WaitKind(waiters[w]))

\* The number of times x occurs in the sequence q.
Count(q, x) == Cardinality({i \in DOMAIN q : q[i] = x})

\* C19: in a dispatch whose loop body subscribes or unsubscribes pairs in the
\* bucket being iterated, no entry is visited twice, and when the iteration
\* of the bucket ends every entry that was in the bucket when the iteration
\* started and is in it now was visited exactly once; the dispatch fails
\* only at an entry whose own filter raises for the event.
C19_SnapshotIteration ==
    /\ disp.pc # "idle" => \A x \in DOMAIN disp.visited :
                              Count(disp.visited, disp.visited[x]) = 1
    /\ (disp.pc = "done" /\ disp.b > 0) \/ (disp.pc = "inner" /\ disp.i > Len(DispIter))
       => \A x \in DOMAIN disp.snap :
             Count(DispLive, disp.snap[x]) > 0 => Count(disp.visited, disp.snap[x]) = 1
    /\ disp.pc = "failed"
       => Filter_catch(FilterObj(disp.visited[Len(disp.visited)].f), disp.e).out = Raise

\* C19's case: the iteration of a bucket that held two pairs ended after the
\* first pair visited was unsubscribed and a new pair was subscribed in the
\* bucket during the iteration; the pair that stayed was visited.
C19_Witness ==
    /\ disp.pc = "inner" /\ disp.i > Len(DispIter)
    /\ Len(disp.snap) = 2 /\ Len(disp.visited) = 2
    /\ Count(DispLive, disp.snap[1]) = 0
    /\ Count(DispLive, disp.snap[2]) = 1
    /\ \E x \in DOMAIN DispLive : Count(disp.snap, DispLive[x]) = 0

\* C21: a catch that ends on a Trigger with no slot (never reset, never
\* waited on) returns False for every event, those its filter captures or
\* raises for included, and changes neither the Trigger nor any caller; the
\* first wait on such a Trigger suspends on a new unresolved slot, whatever
\* events were offered before.
C21_AbsentSlotCatch ==
    [][\A t \in DeclTriggers :
         /\ (last'.op = "catch" /\ last'.t = t /\ trig[t].future = 0)
            => /\ last'.ret = "False"
               /\ trig'[t] = trig[t] /\ futs'[t] = futs[t]
               /\ waiters' = waiters
         /\ \A w \in Waiters :
               (/\ trig[t].future = 0
                /\ waiters[w].pc = "idle" /\ waiters'[w].pc # "idle"
                /\ waiters'[w].t = t)
               => /\ waiters'[w].pc = "susp"
                  /\ trig'[t].future = 1
                  /\ futs'[t][1].state = "pending"
                  /\ futs'[t][1].value = NoneV]_vars

\* C21's case: an event the filter of T1 captures was offered to T1 before
\* its first wait or reset; catch returned False and T1 still has no slot.
C21_Witness ==
    /\ last.op = "catch" /\ last.t = "T1" /\ last.e = Ev("Ping", 42)
    /\ last.ret = "False"
    /\ trig["T1"].future = 0 /\ ~trig["T1"].waited /\ futs["T1"] = <<>>

\* C22: an event of kind K delivered to InterruptControl is offered only to
\* Triggers registered under K and changes no Trigger and no registry entry
\* of another kind; delivered to HandlerControl it calls only handlers of
\* pairs subscribed under K, each with its own filter's payload; and neither
\* dispatch changes the subscription table, nor the other controller's
\* registry and Triggers.
C22_KindIsolation ==
    [][/\ last'.op = "emit"
          => /\ \A i \in DOMAIN last'.offered :
                   Registered(last'.offered[i], last'.e.kind)
             /\ \A t \in TriggerIds :
                   ~Registered(t, last'.e.kind)
                   => trig'[t] = trig[t] /\ futs'[t] = futs[t]
             /\ DOMAIN inc_triggers' = DOMAIN inc_triggers
             /\ \A k \in DOMAIN inc_triggers \ {last'.e.kind} :
                   inc_triggers'[k] = inc_triggers[k]
             /\ hdc_handlers' = hdc_handlers
       /\ last'.op = "dispatch"
          => /\ \A i \in DOMAIN last'.called :
                   \E a \in Subscribed(last'.e.kind) :
                      /\ FilterObj(a.v.f).event_name = last'.e.kind
                      /\ last'.called[i]
                           = Invocation(a.v.h, last'.e,
                                        Filter_catch(FilterObj(a.v.f), last'.e).out)
             /\ hdc_handlers' = hdc_handlers
             /\ inc_triggers' = inc_triggers
             /\ trig' = trig /\ futs' = futs]_vars

\* C22's case: with pairs subscribed under Ping and under Pong, and Triggers
\* registered under both kinds, a Ping event was delivered to HandlerControl
\* and only the handler of the Ping pair was called.
C22_Witness ==
    /\ last.op = "dispatch" /\ last.e = Ev("Ping", 42)
    /\ last.called = <<Invocation("H1", Ev("Ping", 42), Val(42))>>
    /\ \E a \in Subscribed("Pong") : a.v.h = "H2"
    /\ \E t \in TriggerIds : Registered(t, "Ping")
    /\ \E t \in TriggerIds : Registered(t, "Pong")

====
